---- MODULE Spec2Model ----
(***************************************************************************)
(* Note-event extraction and scale-quantized transcription pipeline of the *)
(* Phin (Thai Isan lute) transcription repository.                         *)
(*                                                                         *)
(* Numbers.  The code works on Python floats.  The model is exact:         *)
(*   - a frequency is an integer number of 1/UnitsPerHz Hz, so that every  *)
(*     canonical scale frequency r * ratio / 1.5 of an integer tonic r is  *)
(*     an integer;                                                         *)
(*   - NaN and +inf, which the quantizer can be handed, are kept as        *)
(*     separate float kinds with Python's comparison rules.                *)
(***************************************************************************)
EXTENDS Integers, Sequences, FiniteSets, TLC

VARIABLES
    pc,             \* position of the running operation
    frequency,      \* quantizer: the frequency argument (a float)
    reference_freq, \* quantizer: the reference tonic, Hz
    qresult,        \* quantizer: what the call produced
    f0,             \* segmenter: the contour frames consumed so far
    current_note,   \* segmenter: <<>> (None) or <<the open note>>
    note_events,    \* segmenter: the notes closed so far
    candidates,     \* merger: the candidate list handed to the merger
    time_tolerance, \* merger: time tolerance of the first merge
    freq_tolerance, \* merger: frequency tolerance of the first merge
    grouped,        \* merger: the merged list
    regrouped,      \* merger: tolerances and result of merging `grouped` again
    comp,           \* detector: the component the loop is at
    det_events,     \* detector: the candidates appended so far
    reference,      \* evaluator: the notes of the reference file
    predicted,      \* evaluator: the notes of the predicted file
    scores,         \* evaluator: what evaluate_transcription returned
    metrics,        \* evaluator: what evaluate_midi_accuracy returned
    reference_paths,  \* batch: the reference files
    predicted_paths,  \* batch: the predicted files
    onset_f1_scores,  \* batch: per-item onset scores so far
    pitch_f1_scores,  \* batch: per-item pitch scores so far
    batch_result,   \* batch: <<>>, <<the report>> or <<the error raised>>
    scale_frequencies,  \* adherence: the frequencies argument
    adherence,      \* adherence: <<>> or <<the returned ratio>>
    note_pitches,   \* scale accuracy: the MIDI pitches of the note events
    fundamental_hz, \* scale accuracy: the fundamental, Hz
    scale_accuracy, \* scale accuracy: <<>> or <<the returned metrics>>
    directory,      \* dataset: the files of the audio directory
    validation_split,  \* dataset: validation fraction, in tenths
    test_split,     \* dataset: test fraction, in tenths
    audio_paths,    \* dataset: the listing handed to the preparer
    audio_index,    \* dataset: how many listed paths the loop has taken
    processed_data, \* dataset: the entries appended so far
    data_dir,       \* dataset: audio file names stored in the data directory
    splits,         \* dataset: <<>>, <<the splits>> or <<the error raised>>
    analyzer_result,  \* analyzer: <<>> or <<what its quantizer returned>>
    test_result     \* integration test: <<>> or <<its outcome>>

qvars == <<frequency, reference_freq, qresult>>
segvars == <<f0, current_note, note_events>>
mvars == <<candidates, time_tolerance, freq_tolerance, grouped, regrouped>>
dvars == <<comp, det_events>>
evars == <<reference, predicted, scores, metrics>>
bvars == <<reference_paths, predicted_paths, onset_f1_scores, pitch_f1_scores,
           batch_result>>
avars == <<scale_frequencies, adherence, note_pitches, fundamental_hz,
           scale_accuracy>>
tvars == <<directory, validation_split, test_split, audio_paths, audio_index,
           processed_data, data_dir, splits>>
ivars == <<analyzer_result, test_result>>
vars == <<pc, qvars, segvars, mvars, dvars, evars, bvars, avars, tvars,
          ivars>>

----------------------------------------------------------------------------
(* Floats: [k |-> "num", v |-> n], NaN, +inf.                               *)

FNum(n) == [k |-> "num", v |-> n]
FNaN == [k |-> "nan", v |-> 0]
FInf == [k |-> "inf", v |-> 0]

Abs(x) == IF x < 0 THEN -x ELSE x

\* abs(a - b) for a finite a
FAbsDiff(a, b) ==
    IF b.k = "nan" THEN FNaN
    ELSE IF b.k = "inf" THEN FInf
    ELSE FNum(Abs(a.v - b.v))

\* a < b: False whenever a NaN is involved
FLess(a, b) ==
    IF a.k = "nan" \/ b.k = "nan" THEN FALSE
    ELSE IF a.k = "inf" THEN FALSE
    ELSE IF b.k = "inf" THEN TRUE
    ELSE a.v < b.v

----------------------------------------------------------------------------
(* The scale table, in thousandths.                                         *)

THAI_7_TONE_RATIOS == <<1000, 1125, 1250, 1333, 1500, 1667, 1789>>

Degrees == 0 .. (Len(THAI_7_TONE_RATIOS) - 1)

Ratio(degree) == THAI_7_TONE_RATIOS[degree + 1]

\* one Hz, in frequency units: thousandths of the pivot ratio
UnitsPerHz == Ratio(4)

\* the scale laid out from the tonic ratio instead of the fifth
ExpectedFreqTonicPivot(degree, ref) ==
    (ref * Ratio(degree) * UnitsPerHz) \div Ratio(0)

\* reference_freq * ratio / THAI_7_TONE_RATIOS[4], in frequency units
ExpectedFreq(degree, ref) ==
    (ref * Ratio(degree) * UnitsPerHz) \div Ratio(4)

\* min_difference = float('inf')
min_difference_init == FInf

RECURSIVE QuantizeLoop(_, _, _, _, _)
QuantizeLoop(freq, ref, degree, closest_degree, min_difference) ==
    IF degree \notin Degrees THEN closest_degree
    ELSE LET difference == FAbsDiff(FNum(ExpectedFreq(degree, ref)), freq)
         IN  IF FLess(difference, min_difference)
             THEN QuantizeLoop(freq, ref, degree + 1, degree, difference)
             ELSE QuantizeLoop(freq, ref, degree + 1, closest_degree,
                               min_difference)

\* quantize with octave folding of the input into the reference octave
RECURSIVE FoldOctave(_, _)
FoldOctave(v, ref) ==
    IF v <= 0 THEN v
    ELSE IF v < ExpectedFreq(0, ref) THEN FoldOctave(2 * v, ref)
    ELSE IF v >= 2 * ExpectedFreq(0, ref) THEN FoldOctave(v \div 2, ref)
    ELSE v

quantize_octave_folded(freq, ref) ==
    LET folded == IF freq.k = "num" THEN FNum(FoldOctave(freq.v, ref))
                  ELSE freq
        closest_degree == QuantizeLoop(folded, ref, 0, 0, min_difference_init)
    IN  [error |-> "none",
         freq |-> ExpectedFreq(closest_degree, ref),
         degree |-> closest_degree]

\* quantize_to_thai_scale: the quantized frequency and the degree; the code
\* has no path that raises
quantize_to_thai_scale(freq, ref) ==
    LET closest_degree == QuantizeLoop(freq, ref, 0, 0, min_difference_init)
    IN  [error |-> "none",
         freq |-> ExpectedFreq(closest_degree, ref),
         degree |-> closest_degree]

----------------------------------------------------------------------------
(* Quantizer calls.                                                         *)

MaxTonicIdx == 4
MaxFreqIdx == 12

Tonics == {110 * k : k \in 1 .. MaxTonicIdx}

\* The canonical frequency of a degree as the specification states it.
CanonicalFreq(degree, ref) == (ref * Ratio(degree) * UnitsPerHz) \div 1500

QuantizerInputs(ref) ==
    {FNum(50 * UnitsPerHz * g) : g \in (-1) .. MaxFreqIdx}
    \cup {FNum(CanonicalFreq(d, ref) + e) : d \in Degrees, e \in {-1, 0, 1}}
    \cup {FNum((CanonicalFreq(d, ref) + CanonicalFreq(d + 1, ref)) \div 2 + e) :
             d \in 0 .. 5, e \in {0, 1}}
    \cup {FNaN, FInf}

NoResult == [error |-> "none", freq |-> 0, degree |-> 0]

QIdle ==
    /\ frequency = FNum(0)
    /\ reference_freq = 440
    /\ qresult = NoResult

SegIdle ==
    /\ f0 = <<>>
    /\ current_note = <<>>
    /\ note_events = <<>>

MergeIdle ==
    /\ candidates = <<>>
    /\ time_tolerance = 0
    /\ freq_tolerance = 0
    /\ grouped = <<>>
    /\ regrouped = <<>>

DetIdle ==
    /\ comp = 0
    /\ det_events = <<>>

EvalIdle ==
    /\ reference = <<>>
    /\ predicted = <<>>
    /\ scores = <<>>
    /\ metrics = <<>>

BatchIdle ==
    /\ reference_paths = <<>>
    /\ predicted_paths = <<>>
    /\ onset_f1_scores = <<>>
    /\ pitch_f1_scores = <<>>
    /\ batch_result = <<>>

FreqIdle ==
    /\ scale_frequencies = <<>>
    /\ adherence = <<>>

AccIdle ==
    /\ note_pitches = <<>>
    /\ fundamental_hz = 440
    /\ scale_accuracy = <<>>

AdhIdle == FreqIdle /\ AccIdle

DataIdle ==
    /\ directory = <<>>
    /\ validation_split = 2
    /\ test_split = 1
    /\ audio_paths = <<>>
    /\ audio_index = 0
    /\ processed_data = <<>>
    /\ data_dir = {}
    /\ splits = <<>>

IntIdle ==
    /\ analyzer_result = <<>>
    /\ test_result = <<>>

\* everything outside the quantizer, segmenter, merger and detector
RestIdle == EvalIdle /\ BatchIdle /\ AdhIdle

InitQ ==
    /\ pc = "quantize"
    /\ DataIdle
    /\ IntIdle
    /\ reference_freq \in Tonics
    /\ frequency \in QuantizerInputs(reference_freq)
    /\ qresult = NoResult
    /\ SegIdle
    /\ MergeIdle
    /\ DetIdle
    /\ RestIdle

Quantize ==
    /\ pc = "quantize"
    /\ qresult' = quantize_to_thai_scale(frequency, reference_freq)
    /\ pc' = "quantized"
    /\ UNCHANGED <<frequency, reference_freq, segvars, mvars, dvars, evars,
                   bvars, avars, tvars,
                   ivars>>

NextQ == Quantize

SpecQ == InitQ /\ [][NextQ]_vars

----------------------------------------------------------------------------
(* Quantizer claims.                                                        *)

Quantized == pc = "quantized"

PositiveInput == frequency.k = "num" /\ frequency.v > 0

\* C1: for f > 0 and r > 0 the returned degree is one of 0..6 whose canonical
\* frequency r*ratio[d]/ratio[4] is nearest to the raw input, the returned
\* frequency is exactly that canonical frequency, and nothing is folded:
\* f at or below the degree-0 candidate gives 0, f at or above the degree-6
\* candidate gives 6; tonic 440 and f = 300 Hz give degree 0.
C1_NearestDegreeNoFolding ==
    (Quantized /\ PositiveInput) =>
        /\ qresult.degree \in Degrees
        /\ qresult.freq = CanonicalFreq(qresult.degree, reference_freq)
        /\ \A d \in Degrees :
              Abs(qresult.freq - frequency.v)
                  <= Abs(CanonicalFreq(d, reference_freq) - frequency.v)
        /\ (frequency.v <= CanonicalFreq(0, reference_freq)
              => qresult.degree = 0)
        /\ (frequency.v >= CanonicalFreq(6, reference_freq)
              => qresult.degree = 6)
        /\ (reference_freq = 440 /\ frequency.v = 300 * UnitsPerHz
              => qresult.degree = 0 /\ qresult.freq = 440000)

\* a bass-register input, two octaves below the degree-3 candidate, was
\* quantized to degree 0
C1_Witness ==
    /\ Quantized
    /\ PositiveInput
    /\ reference_freq = 440
    /\ frequency.v = 100 * UnitsPerHz
    /\ qresult.degree = 0

IsCanonicalInput(d) ==
    frequency.k = "num" /\ frequency.v = CanonicalFreq(d, reference_freq)

\* C2: quantizing the canonical frequency of degree d returns that same
\* frequency and d, for every degree and every tonic.
C2_FixedPointOnCanonical ==
    \A d \in Degrees :
        (Quantized /\ IsCanonicalInput(d)) =>
            /\ qresult.degree = d
            /\ qresult.freq = frequency.v

C2_Witness ==
    /\ Quantized
    /\ IsCanonicalInput(6)
    /\ reference_freq = 330
    /\ qresult.degree = 6

InvalidInput ==
    frequency.k # "num" \/ frequency.v <= 0

\* C3: a non-positive or non-finite frequency makes quantize fail with
\* InvalidFrequency and return no result.
C3_InvalidFrequencyRejected ==
    (Quantized /\ InvalidInput) => qresult.error = "InvalidFrequency"

----------------------------------------------------------------------------
(* extract_note_events: the loop over the pitch contour.                    *)
(* A frame is [freq, amp]: freq is the contour's f0 (NaN when unvoiced) and *)
(* amp the sample magnitude abs(y[int(time * sr)]) the code reads at it.    *)
(* Times are in samples: frame i lies at i * HopLength.                     *)

HopLength == 512

\* abs(current_note['pitch'] - quantized_pitch) > 0.5, in frequency units
PitchChangeThreshold == UnitsPerHz \div 2

time_axis(i) == i * HopLength

\* the voicing test without its NaN check
IsVoicedNoNanCheck(freq) == TRUE

\* freq is not None and not np.isnan(freq)
IsVoiced(freq) == freq.k # "nan"

\* every voiced frame taken as a change of pitch
PitchChangedAlways(current_pitch, quantized_pitch) == TRUE

PitchChanged(current_pitch, quantized_pitch) ==
    Abs(current_pitch - quantized_pitch) > PitchChangeThreshold

NewNote(time, quantized_pitch, amp) ==
    [start_time |-> time, pitch |-> quantized_pitch, amplitude |-> amp]

\* the note closed one frame late
ClosedLate(note, time) ==
    [start_time |-> note.start_time, pitch |-> note.pitch,
     amplitude |-> note.amplitude, end_time |-> time + HopLength]

Closed(note, time) ==
    [start_time |-> note.start_time, pitch |-> note.pitch,
     amplitude |-> note.amplitude, end_time |-> time]

\* the loop's end without the closing of the open note
CloseLastNoteForgotten(cur, events, last_time) == events

\* Close the last note if still active
CloseLastNote(cur, events, last_time) ==
    IF cur # <<>> THEN Append(events, Closed(cur[1], last_time)) ELSE events

MaxFrames == 4
MaxSegFreqIdx == 2
MaxAmp == 1

\* 280 and 300 Hz quantize to degree 0 of tonic 440, 320 Hz to degree 1
SegFrequencies == {FNum((280 + 20 * k) * UnitsPerHz) : k \in 0 .. MaxSegFreqIdx}

Frames ==
    {[freq |-> FNaN, amp |-> 0]}
    \cup {[freq |-> f, amp |-> a] : f \in SegFrequencies, a \in 1 .. MaxAmp}

InitSeg ==
    /\ pc = "segment"
    /\ DataIdle
    /\ IntIdle
    /\ SegIdle
    /\ QIdle
    /\ MergeIdle
    /\ RestIdle
    /\ DetIdle

\* one iteration of the loop, on frame number Len(f0)
SegmentFrame ==
    /\ pc = "segment"
    /\ Len(f0) < MaxFrames
    /\ \E frame \in Frames :
         LET time == time_axis(Len(f0))
             quantized_pitch ==
                 quantize_to_thai_scale(frame.freq, 440).freq
         IN  /\ f0' = Append(f0, frame)
             /\ IF IsVoiced(frame.freq)
                THEN IF current_note = <<>>
                     THEN /\ current_note' =
                               <<NewNote(time, quantized_pitch, frame.amp)>>
                          /\ UNCHANGED note_events
                     ELSE IF PitchChanged(current_note[1].pitch,
                                          quantized_pitch)
                          THEN /\ note_events' =
                                    Append(note_events,
                                           Closed(current_note[1], time))
                               /\ current_note' =
                                    <<NewNote(time, quantized_pitch,
                                              frame.amp)>>
                          ELSE UNCHANGED <<current_note, note_events>>
                ELSE IF current_note # <<>>
                     THEN /\ note_events' =
                               Append(note_events,
                                      Closed(current_note[1], time))
                          /\ current_note' = <<>>
                     ELSE UNCHANGED <<current_note, note_events>>
    /\ UNCHANGED <<pc, qvars, mvars, dvars, evars, bvars, avars, tvars,
                   ivars>>

\* the contour is exhausted: the code after the loop
SegmentFinish ==
    /\ pc = "segment"
    /\ IF current_note # <<>> /\ f0 = <<>>
       THEN \* time_axis[-1] of an empty axis
            /\ pc' = "IndexError"
            /\ UNCHANGED note_events
       ELSE /\ pc' = "segmented"
            /\ note_events' =
                 CloseLastNote(current_note, note_events,
                               time_axis(Len(f0) - 1))
    /\ current_note' = <<>>
    /\ UNCHANGED <<f0, qvars, mvars, dvars, evars, bvars, avars, tvars,
                   ivars>>

NextSeg == SegmentFrame \/ SegmentFinish

SpecSeg == InitSeg /\ [][NextSeg]_vars

----------------------------------------------------------------------------
(* Segmenter claims.                                                        *)

Segmented == pc = "segmented"

NoteSet == {note_events[i] : i \in 1 .. Len(note_events)}

\* C4: every note segmentContour returns has end_time > start_time, also
\* the notes closed by the end-of-contour rule.
C4_EndAfterStart ==
    Segmented => \A n \in NoteSet : n.end_time > n.start_time

VoicedAt(i) == f0[i].freq.k = "num"

PitchAt(i) == quantize_to_thai_scale(f0[i].freq, 440).freq

\* frames a..b are the only voiced frames and all quantize to one pitch
SingleRun(a, b) ==
    /\ a <= b
    /\ \A i \in 1 .. Len(f0) : VoicedAt(i) <=> (a <= i /\ i <= b)
    /\ \A i \in a .. b : PitchAt(i) = PitchAt(a)

\* C5: a contour holding a single voiced run of N >= 1 frames of one
\* quantized pitch gives exactly one note, starting at the run's first frame
\* and not ending before the run's last frame.
C5_SingleRunSingleNote ==
    \A a \in 1 .. Len(f0) : \A b \in a .. Len(f0) :
        (Segmented /\ SingleRun(a, b)) =>
            /\ Len(note_events) = 1
            /\ note_events[1].start_time = time_axis(a - 1)
            /\ note_events[1].end_time >= time_axis(b - 1)
            /\ note_events[1].pitch = PitchAt(a)

\* a run of two frames of different raw frequency and equal quantized pitch
\* that lasts to the end of the contour
C5_Witness ==
    /\ Segmented
    /\ Len(f0) = 3
    /\ SingleRun(2, 3)
    /\ f0[2].freq # f0[3].freq
    /\ Len(note_events) = 1

AllUnvoiced == \A i \in 1 .. Len(f0) : ~VoicedAt(i)

\* C6: an empty contour and a contour of unvoiced frames only give the empty
\* list, and the call ends without an error.
C6_UnvoicedGivesEmpty ==
    /\ pc # "IndexError"
    /\ (pc = "segmented" /\ AllUnvoiced) => note_events = <<>>

C6_Witness ==
    /\ Segmented
    /\ Len(f0) = 3
    /\ AllUnvoiced
    /\ note_events = <<>>

C6_WitnessEmpty ==
    /\ Segmented
    /\ f0 = <<>>
    /\ note_events = <<>>

\* the quantized pitch of every frame, 0 for an unvoiced frame
FramePitches ==
    [i \in 1 .. Len(f0) |-> IF VoicedAt(i) THEN PitchAt(i) ELSE 0]

\* frames a .. b are a maximal run of voiced frames of one pitch, p being
\* the pitches of the frames
IsRun(p, a, b) ==
    /\ a <= b
    /\ \A i \in a .. b : p[i] # 0 /\ p[i] = p[a]
    /\ a = 1 \/ p[a - 1] # p[a]
    /\ b = Len(p) \/ p[b + 1] # p[b]

RunsOf(p) == {r \in (1 .. Len(p)) \X (1 .. Len(p)) : IsRun(p, r[1], r[2])}

Runs == RunsOf(FramePitches)

\* the runs in the order of their first frames
RECURSIVE RunList(_)
RunList(runs) ==
    IF runs = {} THEN <<>>
    ELSE LET first == CHOOSE r \in runs : \A q \in runs : r[1] <= q[1]
         IN  <<first>> \o RunList(runs \ {first})

\* C23: one note per maximal run of consecutive voiced frames of one
\* quantized pitch, in order; the note starts at the run's first frame with
\* that frame's quantized pitch and ends at the frame after the run, be it
\* unvoiced or of another pitch (at the last frame when the run lasts to the
\* end); while scanning, a note is open iff the last frame was voiced, and
\* it is the note of the run that frame belongs to.
C23_OneNotePerMaximalRun ==
    pc \in {"segment", "segmented"} =>
        LET n == Len(f0)
            p == FramePitches
            runs == RunList(RunsOf(p))
            open == Len(runs) > 0 /\ runs[Len(runs)][2] = n
            closed == IF pc = "segment" /\ open
                      THEN SubSeq(runs, 1, Len(runs) - 1) ELSE runs
        IN  /\ Len(note_events) = Len(closed)
            /\ \A k \in 1 .. Len(closed) :
                   /\ note_events[k].start_time = time_axis(closed[k][1] - 1)
                   /\ note_events[k].pitch = p[closed[k][1]]
                   /\ note_events[k].end_time =
                          IF closed[k][2] < n THEN time_axis(closed[k][2])
                          ELSE time_axis(n - 1)
            /\ pc = "segment" =>
                   /\ current_note # <<>> <=> (n > 0 /\ p[n] # 0)
                   /\ current_note # <<>> <=> open
                   /\ open =>
                          LET a == runs[Len(runs)][1]
                          IN  /\ current_note[1].start_time = time_axis(a - 1)
                              /\ current_note[1].pitch = p[a]

\* two frames of one pitch, a frame of another pitch, an unvoiced frame
C23_Witness ==
    /\ Segmented
    /\ Len(f0) = 4
    /\ Runs = {<<1, 2>>, <<3, 3>>}
    /\ Len(note_events) = 2
    /\ note_events[1].end_time = note_events[2].start_time

\* the frame at which the note starts, counted from 1
StartFrame(note) == (note.start_time \div HopLength) + 1

\* C24: the returned start times are strictly increasing, and each note ends
\* no later than the next one starts, at that very time exactly when the
\* frame before the next note's first frame is voiced (a pitch change).
C24_OrderedNonOverlapping ==
    Segmented =>
        \A k \in 1 .. (Len(note_events) - 1) :
            /\ note_events[k].start_time < note_events[k + 1].start_time
            /\ note_events[k].end_time <= note_events[k + 1].start_time
            /\ note_events[k].end_time = note_events[k + 1].start_time
                   <=> VoicedAt(StartFrame(note_events[k + 1]) - 1)

\* a note ended by an unvoiced frame, the next one by a pitch change
C24_Witness ==
    /\ Segmented
    /\ Len(note_events) = 3
    /\ note_events[1].end_time < note_events[2].start_time
    /\ note_events[2].end_time = note_events[3].start_time

----------------------------------------------------------------------------
(* group_similar_notes and merge_note_group.                                *)
(* A candidate is [start_time, frequency, activation, component, duration]; *)
(* component and duration are <<>> when the dict has no such key.  The key  *)
(* midi_note is a function of frequency alone and is left out.              *)
(* Means are exact: every time, frequency and activation handed to the      *)
(* merger is a multiple of MeanScale * MeanScale, MeanScale the least       *)
(* common multiple of the possible group sizes, so that the mean of a group *)
(* of merged groups is still an integer.                                    *)

MaxCand == 3

RECURSIVE Gcd(_, _)
Gcd(a, b) == IF b = 0 THEN a ELSE Gcd(b, a % b)

RECURSIVE LcmUpTo(_)
LcmUpTo(n) ==
    IF n <= 1 THEN 1 ELSE (LcmUpTo(n - 1) * n) \div Gcd(LcmUpTo(n - 1), n)

MeanScale == LcmUpTo(MaxCand)

Scaled(x) == x * MeanScale * MeanScale

RECURSIVE SumSeq(_)
SumSeq(s) == IF s = <<>> THEN 0 ELSE Head(s) + SumSeq(Tail(s))

RECURSIVE MaxSeq(_)
MaxSeq(s) ==
    IF Len(s) = 1 THEN s[1]
    ELSE LET m == MaxSeq(Tail(s)) IN IF s[1] >= m THEN s[1] ELSE m

RECURSIVE MinSeq(_)
MinSeq(s) ==
    IF Len(s) = 1 THEN s[1]
    ELSE LET m == MinSeq(Tail(s)) IN IF s[1] <= m THEN s[1] ELSE m

\* np.mean
Mean(s) == SumSeq(s) \div Len(s)

\* the merged event keeping the start of its first member
merge_note_group_first_start(note_group) ==
    IF Len(note_group) = 1 THEN note_group[1]
    ELSE [start_time |-> note_group[1].start_time,
          frequency |-> Mean([i \in 1 .. Len(note_group) |->
                                 note_group[i].frequency]),
          activation |-> Mean([i \in 1 .. Len(note_group) |->
                                  note_group[i].activation]),
          component |-> <<>>,
          duration |-> <<note_group[Len(note_group)].start_time
                         - note_group[1].start_time>>]

merge_note_group(note_group) ==
    IF Len(note_group) = 1 THEN note_group[1]
    ELSE LET start_times ==
                 [i \in 1 .. Len(note_group) |-> note_group[i].start_time]
             frequencies ==
                 [i \in 1 .. Len(note_group) |-> note_group[i].frequency]
             activations ==
                 [i \in 1 .. Len(note_group) |-> note_group[i].activation]
         IN  [start_time |-> Mean(start_times),
              frequency |-> Mean(frequencies),
              activation |-> Mean(activations),
              component |-> <<>>,
              duration |-> <<MaxSeq(start_times) - MinSeq(start_times)>>]

Last(s) == s[Len(s)]

\* closeness with both bounds exclusive
CloseToLastStrict(event, current_group, time_tol, freq_tol) ==
    /\ Abs(event.start_time - Last(current_group).start_time) < time_tol
    /\ Abs(event.frequency - Last(current_group).frequency) < freq_tol

\* closeness measured against the first member of the group
CloseToFirst(event, current_group, time_tol, freq_tol) ==
    /\ Abs(event.start_time - current_group[1].start_time) <= time_tol
    /\ Abs(event.frequency - current_group[1].frequency) <= freq_tol

\* closeness in time or in frequency
CloseEitherWay(event, current_group, time_tol, freq_tol) ==
    \/ Abs(event.start_time - Last(current_group).start_time) <= time_tol
    \/ Abs(event.frequency - Last(current_group).frequency) <= freq_tol

\* closeness in time alone
CloseInTime(event, current_group, time_tol, freq_tol) ==
    Abs(event.start_time - Last(current_group).start_time) <= time_tol

\* time_diff <= time_tolerance and freq_diff <= freq_tolerance, against the
\* last event of the current group
CloseToLast(event, current_group, time_tol, freq_tol) ==
    /\ Abs(event.start_time - Last(current_group).start_time) <= time_tol
    /\ Abs(event.frequency - Last(current_group).frequency) <= freq_tol

\* the loop of group_similar_notes over note_events[1:], keeping the groups
RECURSIVE GroupLoop(_, _, _, _, _)
GroupLoop(events, current_group, groups, time_tol, freq_tol) ==
    IF events = <<>> THEN Append(groups, current_group)
    ELSE IF CloseToLast(Head(events), current_group, time_tol, freq_tol)
         THEN GroupLoop(Tail(events), Append(current_group, Head(events)),
                        groups, time_tol, freq_tol)
         ELSE GroupLoop(Tail(events), <<Head(events)>>,
                        Append(groups, current_group), time_tol, freq_tol)

\* the groups group_similar_notes forms, in order
NoteGroups(events, time_tol, freq_tol) ==
    IF events = <<>> THEN <<>>
    ELSE GroupLoop(Tail(events), <<Head(events)>>, <<>>, time_tol, freq_tol)

group_similar_notes(events, time_tol, freq_tol) ==
    LET groups == NoteGroups(events, time_tol, freq_tol)
    IN  [g \in 1 .. Len(groups) |-> merge_note_group(groups[g])]

----------------------------------------------------------------------------
(* Merging a time-sorted candidate list, and merging the result again.      *)

\* 0.25 Hz, in frequency units
FreqStep == UnitsPerHz \div 4

Candidate(t, f, a) ==
    [start_time |-> Scaled(t * HopLength),
     frequency |-> Scaled(440 * UnitsPerHz + f * FreqStep),
     activation |-> Scaled(a),
     component |-> <<0>>,
     duration |-> <<>>]

CandidateSet ==
    {Candidate(t, f, a) : t \in 0 .. (MaxCand - 1), f \in {0, 2, 3},
                          a \in {1, 2}}

SortedByStart(events) ==
    \A i \in 1 .. (Len(events) - 1) :
        events[i].start_time <= events[i + 1].start_time

TimeTolerances == {Scaled(k * HopLength) : k \in {1, 2}}
FreqTolerances == {Scaled(k * FreqStep) : k \in {2, 3}}

InitMerge ==
    /\ pc = "merge"
    /\ DataIdle
    /\ IntIdle
    /\ \E n \in 0 .. MaxCand :
         /\ candidates \in [1 .. n -> CandidateSet]
         /\ SortedByStart(candidates)
    /\ time_tolerance \in TimeTolerances
    /\ freq_tolerance \in FreqTolerances
    /\ grouped = <<>>
    /\ regrouped = <<>>
    /\ QIdle
    /\ SegIdle
    /\ DetIdle
    /\ RestIdle

MergeNotes ==
    /\ pc = "merge"
    /\ grouped' = group_similar_notes(candidates, time_tolerance,
                                      freq_tolerance)
    /\ pc' = "merged"
    /\ UNCHANGED <<candidates, time_tolerance, freq_tolerance, regrouped,
                   qvars, segvars, dvars, evars, bvars, avars, tvars,
                   ivars>>

\* the merged list is merged again, with tolerances at least as large
MergeAgain ==
    /\ pc = "merged"
    /\ \E tt \in TimeTolerances, ft \in FreqTolerances :
         /\ tt >= time_tolerance
         /\ ft >= freq_tolerance
         /\ regrouped' = <<[time_tolerance |-> tt, freq_tolerance |-> ft,
                            grouped |-> group_similar_notes(grouped, tt, ft)]>>
    /\ pc' = "remerged"
    /\ UNCHANGED <<candidates, time_tolerance, freq_tolerance, grouped,
                   qvars, segvars, dvars, evars, bvars, avars, tvars,
                   ivars>>

NextMerge == MergeNotes \/ MergeAgain

SpecMerge == InitMerge /\ [][NextMerge]_vars

----------------------------------------------------------------------------
(* accurate_note_detection: the loop over the components of the             *)
(* decomposition, the sort and the grouping.                                *)
(* The decomposition itself (sklearn's NMF) is outside the repository: each *)
(* component's activation column W[:, i] and the dominant bin               *)
(* argmax(H[i, :]) of its frequency profile are inputs.                     *)

SampleRate == 22050
NBins == 120
MaxComponents == 20
BinsPerComponent == 10

\* the component count taken from the number of time frames, shape[0]
n_components_from_frames(shape) ==
    LET n == IF shape[1] \div BinsPerComponent < MaxComponents
             THEN shape[1] \div BinsPerComponent ELSE MaxComponents
    IN  IF n < 1 THEN 1 ELSE n

\* n_components = min(20, cqt_mag_t.shape[1] // 10), at least 1;
\* cqt_mag_t is (time, freq), so shape[1] is the number of frequency bins
n_components(shape) ==
    LET n == IF shape[2] \div BinsPerComponent < MaxComponents
             THEN shape[2] \div BinsPerComponent ELSE MaxComponents
    IN  IF n < 1 THEN 1 ELSE n

\* distance = int(0.1 / time_resolution), time_resolution = hop_length / sr
MinPeakDistance == (SampleRate \div 10) \div HopLength

\* scipy.signal's local maxima of x, as 0-based frame numbers: a sample or
\* the middle of a plateau that is higher than both neighbours; never an edge
RECURSIVE LocalMaxima(_, _, _)
LocalMaxima(x, i, found) ==
    IF i >= Len(x) THEN found
    ELSE IF x[i - 1] < x[i]
         THEN LET ahead ==
                      CHOOSE a \in (i + 1) .. Len(x) :
                          /\ \A j \in (i + 1) .. (a - 1) : x[j] = x[i]
                          /\ (a = Len(x) \/ x[a] # x[i])
              IN  IF x[ahead] < x[i]
                  THEN LocalMaxima(x, ahead + 1,
                                   Append(found, ((i + ahead - 1) \div 2) - 1))
                  ELSE LocalMaxima(x, i + 1, found)
         ELSE LocalMaxima(x, i + 1, found)

\* height = np.max(activations) * 0.3: the peaks at least that high
AboveHeight(x, peaks) ==
    SelectSeq(peaks, LAMBDA p : 10 * x[p + 1] >= 3 * MaxSeq(x))

\* scipy's selection by distance: the peaks are visited from the highest
\* down (of equal ones the later first); a visited peak that is still kept
\* removes every other peak closer than `distance` frames
RECURSIVE SelectByDistance(_, _, _, _)
SelectByDistance(x, todo, keep, distance) ==
    IF todo = {} THEN keep
    ELSE LET j == CHOOSE p \in todo :
                      \A q \in todo :
                          \/ x[q + 1] < x[p + 1]
                          \/ (x[q + 1] = x[p + 1] /\ q <= p)
         IN  IF j \notin keep
             THEN SelectByDistance(x, todo \ {j}, keep, distance)
             ELSE SelectByDistance(
                      x, todo \ {j},
                      {k \in keep : k = j \/ Abs(k - j) >= distance},
                      distance)

RECURSIVE SetToSortedSeq(_)
SetToSortedSeq(S) ==
    IF S = {} THEN <<>>
    ELSE LET m == CHOOSE a \in S : \A b \in S : a <= b
         IN  <<m>> \o SetToSortedSeq(S \ {m})

SeqToSet(s) == {s[i] : i \in 1 .. Len(s)}

\* find_peaks(activations, height = 0.3 * max, distance = distance)
find_peaks(x, distance) ==
    LET high == SeqToSet(AboveHeight(x, LocalMaxima(x, 2, <<>>)))
    IN  SetToSortedSeq(SelectByDistance(x, high, high, distance))

\* librosa.cqt_frequencies(n_bins, fmin = 65.41, bins_per_octave = 24) at a
\* bin: 65.41 * 2 ** (bin / 24), in frequency units
cqt_frequencies(bin) ==
    CASE bin = 40 -> 311496
      [] bin = 53 -> 453430
      [] bin = 60 -> 555022
      [] bin = 66 -> 660036
      [] bin = 72 -> 784920

DominantBins == {53, 60}

\* the note_events.append of the loop, for one peak
PeakEvent(peak_idx, freq_bin, activations, i) ==
    [start_time |-> Scaled(peak_idx * HopLength),
     frequency |->
         Scaled(quantize_to_thai_scale(FNum(cqt_frequencies(freq_bin)),
                                       440).freq),
     activation |-> Scaled(activations[peak_idx + 1]),
     component |-> <<i>>,
     duration |-> <<>>]

RECURSIVE InsertByStart(_, _)
InsertByStart(sorted, e) ==
    IF sorted = <<>> THEN <<e>>
    ELSE IF Last(sorted).start_time <= e.start_time THEN Append(sorted, e)
    ELSE Append(InsertByStart(SubSeq(sorted, 1, Len(sorted) - 1), e),
                Last(sorted))

RECURSIVE SortLoop(_, _)
SortLoop(events, sorted) ==
    IF events = <<>> THEN sorted
    ELSE SortLoop(Tail(events), InsertByStart(sorted, Head(events)))

\* the candidates left in component order
SortNothing(events) == events

\* note_events.sort(key=lambda x: x['start_time']): a stable sort
SortByStartTime(events) == SortLoop(events, <<>>)

NumFrames == 8
MaxActive == 2

ActivationLevels == {0, 1, 4}

\* activation columns with at most two non-zero frames
ActivationColumns ==
    {[t \in 1 .. NumFrames |-> IF t = a THEN u ELSE IF t = b THEN v ELSE 0] :
        a \in 1 .. NumFrames, b \in 1 .. NumFrames,
        u \in ActivationLevels, v \in ActivationLevels}

ZeroColumn == [t \in 1 .. NumFrames |-> 0]

\* find_peaks on every column the decomposition may give
ColumnPeaks ==
    [x \in ActivationColumns \cup {ZeroColumn} |->
        find_peaks(x, MinPeakDistance)]

\* only the first MaxActive components are active at all
ComponentColumns(i) ==
    IF i < MaxActive THEN ActivationColumns ELSE {ZeroColumn}

DefaultTimeTolerance == Scaled(SampleRate \div 10)
DefaultFreqTolerance == Scaled(UnitsPerHz \div 2)

InitDetect ==
    /\ pc = "detect"
    /\ DataIdle
    /\ IntIdle
    /\ DetIdle
    /\ MergeIdle
    /\ QIdle
    /\ RestIdle
    /\ SegIdle

\* one iteration of the loop over the components
DetectComponent ==
    /\ pc = "detect"
    /\ comp < n_components(<<NumFrames, NBins>>)
    /\ \E activations \in ComponentColumns(comp), freq_bin \in DominantBins :
         LET peaks == ColumnPeaks[activations]
             events == [k \in 1 .. Len(peaks) |->
                           PeakEvent(peaks[k], freq_bin, activations, comp)]
         IN  /\ Len(det_events) + Len(events) <= MaxCand
             /\ det_events' = det_events \o events
    /\ comp' = comp + 1
    /\ UNCHANGED <<pc, qvars, segvars, mvars, evars, bvars, avars, tvars,
                   ivars>>

\* after the loop: sort by time, group, return
DetectFinish ==
    /\ pc = "detect"
    /\ comp = n_components(<<NumFrames, NBins>>)
    /\ candidates' = SortByStartTime(det_events)
    /\ time_tolerance' = DefaultTimeTolerance
    /\ freq_tolerance' = DefaultFreqTolerance
    /\ grouped' = group_similar_notes(SortByStartTime(det_events),
                                      DefaultTimeTolerance,
                                      DefaultFreqTolerance)
    /\ pc' = "detected"
    /\ UNCHANGED <<regrouped, qvars, segvars, dvars, evars, bvars, avars, tvars,
                   ivars>>

NextDetect == DetectComponent \/ DetectFinish

SpecDetect == InitDetect /\ [][NextDetect]_vars

\* the merger called on its own or at the end of the detector
SpecNotes ==
    (InitMerge \/ InitDetect) /\ [][NextMerge \/ NextDetect]_vars

----------------------------------------------------------------------------
(* Merger claims.                                                           *)

Merged == pc \in {"merged", "remerged"}

Remerged == pc = "remerged"

WithinBoth(a, b, time_tol, freq_tol) ==
    /\ Abs(a.start_time - b.start_time) <= time_tol
    /\ Abs(a.frequency - b.frequency) <= freq_tol

\* any two candidate frequencies are equal or more than the frequency
\* tolerance apart, as quantized candidates are
FrequenciesSeparated ==
    \A i, j \in 1 .. Len(candidates) :
        \/ candidates[i].frequency = candidates[j].frequency
        \/ Abs(candidates[i].frequency - candidates[j].frequency)
               > freq_tolerance

\* C7 as stated: merging the merged list again, with tolerances at least as
\* large, gives the merged list back.
C7_IdempotentLargerTolerances ==
    Remerged => regrouped[1].grouped = grouped

\* C7 amended: merging the merged list again with the same two tolerances
\* gives it back, when any two candidate frequencies are equal or more than
\* the frequency tolerance apart.
C7_IdempotentSameTolerances ==
    ( /\ Remerged
      /\ regrouped[1].time_tolerance = time_tolerance
      /\ regrouped[1].freq_tolerance = freq_tolerance
      /\ FrequenciesSeparated )
        => regrouped[1].grouped = grouped

C7_Witness ==
    /\ Remerged
    /\ regrouped[1].time_tolerance = time_tolerance
    /\ regrouped[1].freq_tolerance = freq_tolerance
    /\ FrequenciesSeparated
    /\ Len(candidates) = 3
    /\ Len(grouped) = 2
    /\ candidates[1].frequency # candidates[3].frequency
    /\ regrouped[1].grouped = grouped

NoAdjacentWithinBoth(events, time_tol, freq_tol) ==
    \A i \in 1 .. (Len(events) - 1) :
        ~WithinBoth(events[i], events[i + 1], time_tol, freq_tol)

\* C8 as stated: no two adjacent merged events are within both tolerances
\* of each other.
C8_NoAdjacentWithinTolerances ==
    Merged => NoAdjacentWithinBoth(grouped, time_tolerance, freq_tolerance)

\* C8 amended: no two adjacent merged events are within both tolerances of
\* each other, when any two candidate frequencies are equal or more than the
\* frequency tolerance apart.
C8_NoAdjacentWithinTolerancesSeparated ==
    (Merged /\ FrequenciesSeparated)
        => NoAdjacentWithinBoth(grouped, time_tolerance, freq_tolerance)

\* two merged events left apart by time alone, the first one an average
C8_Witness ==
    /\ Merged
    /\ FrequenciesSeparated
    /\ Len(candidates) = 3
    /\ Len(grouped) = 2
    /\ grouped[1].duration # <<>>
    /\ grouped[1].frequency = grouped[2].frequency

FormedGroups == NoteGroups(candidates, time_tolerance, freq_tolerance)

StartsOf(g) == [i \in 1 .. Len(g) |-> g[i].start_time]

FrequenciesOf(g) == [i \in 1 .. Len(g) |-> g[i].frequency]

TimeSpread(g) == MaxSeq(StartsOf(g)) - MinSeq(StartsOf(g))

FreqSpread(g) == MaxSeq(FrequenciesOf(g)) - MinSeq(FrequenciesOf(g))

\* C10 as stated: in every group the latest and earliest start differ by at
\* most the time tolerance (this is the merged event's duration) and the
\* largest and smallest frequency by at most the frequency tolerance.
C10_SpreadWithinTolerances ==
    Merged =>
        \A g \in 1 .. Len(FormedGroups) :
            /\ TimeSpread(FormedGroups[g]) <= time_tolerance
            /\ FreqSpread(FormedGroups[g]) <= freq_tolerance
            /\ (grouped[g].duration # <<>>
                  => grouped[g].duration[1] <= time_tolerance)

\* C10 amended: in every group each member is within both tolerances of the
\* member before it, so a group of n members spreads over at most (n - 1)
\* times each tolerance; the merged event's duration is that time spread.
C10_SpreadWithinChainedTolerances ==
    Merged =>
        /\ Len(FormedGroups) = Len(grouped)
        /\ \A g \in 1 .. Len(FormedGroups) :
             LET group == FormedGroups[g]
                 n == Len(group)
             IN  /\ \A i \in 1 .. (n - 1) :
                       WithinBoth(group[i], group[i + 1], time_tolerance,
                                  freq_tolerance)
                 /\ TimeSpread(group) <= (n - 1) * time_tolerance
                 /\ FreqSpread(group) <= (n - 1) * freq_tolerance
                 /\ (n > 1 => grouped[g].duration = <<TimeSpread(group)>>)

\* a chain of three members spreading over twice the time tolerance
C10_Witness ==
    /\ Merged
    /\ Len(FormedGroups) = 1
    /\ Len(FormedGroups[1]) = 3
    /\ TimeSpread(FormedGroups[1]) = 2 * time_tolerance
    /\ grouped[1].duration = <<2 * time_tolerance>>

\* the candidates that are not within both tolerances of the candidate
\* before them, and the first candidate
GroupStarts ==
    {i \in 1 .. Len(candidates) :
        i = 1 \/ ~WithinBoth(candidates[i], candidates[i - 1],
                             time_tolerance, freq_tolerance)}

RECURSIVE Flatten(_)
Flatten(groups) ==
    IF groups = <<>> THEN <<>> ELSE Head(groups) \o Flatten(Tail(groups))

\* C25: candidate i joins the group of candidate i - 1 iff its start_time
\* and its frequency are within the tolerances (inclusive) of those of
\* candidate i - 1, otherwise it starts a new group; the groups are
\* contiguous and partition the input, the output has one event per group
\* in scan order, is no longer than the input, and is empty iff the input is.
C25_ContiguousGroupsByScan ==
    Merged =>
        LET n == Len(candidates)
            starts == GroupStarts
            groups == FormedGroups
        IN  /\ Len(grouped) = Cardinality(starts)
            /\ Len(groups) = Cardinality(starts)
            /\ Flatten(groups) = candidates
            /\ \A a \in starts :
                   LET k == Cardinality({b \in starts : b <= a})
                       later == {b \in starts : b > a}
                       e == IF later = {} THEN n
                            ELSE (CHOOSE b \in later :
                                      \A c \in later : b <= c) - 1
                   IN  /\ groups[k] = SubSeq(candidates, a, e)
                       /\ grouped[k]
                              = merge_note_group(SubSeq(candidates, a, e))
            /\ Len(grouped) <= n
            /\ grouped = <<>> <=> candidates = <<>>

\* a group of two, whose second member is close to the first, and a third
\* candidate within the time tolerance only
C25_Witness ==
    /\ Merged
    /\ Len(candidates) = 3
    /\ GroupStarts = {1, 3}
    /\ Abs(candidates[3].start_time - candidates[2].start_time)
           <= time_tolerance
    /\ Len(grouped) = 2

ActivationsOf(g) == [i \in 1 .. Len(g) |-> g[i].activation]

\* m is the arithmetic mean of xs, and lies between their minimum and
\* maximum
IsMeanOf(m, xs) ==
    /\ m * Len(xs) = SumSeq(xs)
    /\ MinSeq(xs) <= m
    /\ m <= MaxSeq(xs)

\* C26: the event of a group of two or more members has the arithmetic
\* means of the members' start_time, frequency and activation, each between
\* the members' minimum and maximum, and the duration max(start_time) -
\* min(start_time); a group of one member is returned as that member.
C26_MergedEventIsMeanOfGroup ==
    Merged =>
        \A g \in 1 .. Len(FormedGroups) :
            LET group == FormedGroups[g]
            IN  IF Len(group) = 1 THEN grouped[g] = group[1]
                ELSE /\ IsMeanOf(grouped[g].start_time, StartsOf(group))
                     /\ IsMeanOf(grouped[g].frequency, FrequenciesOf(group))
                     /\ IsMeanOf(grouped[g].activation, ActivationsOf(group))
                     /\ grouped[g].duration = <<TimeSpread(group)>>

\* a group of three members of different starts, frequencies and
\* activations, and a group of one
C26_Witness ==
    /\ pc = "merged"
    /\ Len(FormedGroups) = 2
    /\ Len(FormedGroups[1]) = 2
    /\ FormedGroups[1][1].start_time # FormedGroups[1][2].start_time
    /\ FormedGroups[1][1].frequency # FormedGroups[1][2].frequency
    /\ FormedGroups[1][1].activation # FormedGroups[1][2].activation
    /\ grouped[2] = candidates[3]

Detected == pc = "detected"

SamePlace(a, b) ==
    \E perm \in [1 .. Len(a) -> 1 .. Len(a)] :
        /\ \A i, j \in 1 .. Len(a) : perm[i] = perm[j] => i = j
        /\ \A i \in 1 .. Len(a) : b[perm[i]] = a[i]

\* C9: the detector hands the merger its candidates of all components
\* ordered by start_time, and the merged list of every list ordered by
\* start_time is ordered by start_time.
C9_SortedInSortedOut ==
    /\ Detected =>
         /\ SortedByStart(candidates)
         /\ Len(candidates) = Len(det_events)
         /\ SamePlace(det_events, candidates)
    /\ (Detected \/ Merged) => SortedByStart(grouped)

\* the components gave their candidates out of time order, two of them were
\* averaged and the merged list is in order
C9_Witness ==
    /\ Detected
    /\ ~SortedByStart(det_events)
    /\ Len(det_events) = 3
    /\ Len(grouped) = 2
    /\ \E g \in 1 .. 2 : grouped[g].duration # <<>>
    /\ grouped[1].start_time < grouped[2].start_time

----------------------------------------------------------------------------
(* Detector claims.                                                         *)

Min2(a, b) == IF a <= b THEN a ELSE b

Max2(a, b) == IF a >= b THEN a ELSE b

\* min(20, max(1, floor(n / 10)))
ClaimedComponents(n) == Min2(20, Max2(1, n \div 10))

\* C11 as stated: the loop runs over k = min(20, max(1, floor(time_frames /
\* 10))) components, time_frames the number of time frames of the matrix.
C11_ComponentsFromTimeFrames ==
    Detected => comp = ClaimedComponents(NumFrames)

\* C11 amended: k = min(20, max(1, floor(n_bins / 10))), n_bins the number
\* of frequency bins of the matrix (120, so k = 12 whatever the number of
\* time frames), and 1 <= k <= 20.
C11_ComponentsFromFrequencyBins ==
    /\ Detected =>
         /\ comp = ClaimedComponents(NBins)
         /\ 1 <= comp /\ comp <= 20
    /\ \A frames \in {1, NumFrames, 100, 500} :
         \A bins \in {0, 5, 10, 19, 20, NBins, 199, 200, 1000} :
             /\ n_components(<<frames, bins>>) = ClaimedComponents(bins)
             /\ n_components(<<frames, bins>>) \in 1 .. 20

C11_Witness ==
    /\ Detected
    /\ comp = 12
    /\ ClaimedComponents(NumFrames) = 1
    /\ Len(det_events) = 2

\* C12: two candidates of one component start at least 100 ms apart.
C12_SameComponentGap ==
    \A i, j \in 1 .. Len(det_events) :
        (i # j /\ det_events[i].component = det_events[j].component)
            => Abs(det_events[i].start_time - det_events[j].start_time)
                   >= Scaled(SampleRate \div 10)

----------------------------------------------------------------------------
(* The evaluator.  A MIDI file is the list of its non-drum notes; times are *)
(* in milliseconds, pitches are MIDI note numbers, and a score is an        *)
(* integer number of 1/ScoreScale, which is exact for every precision,      *)
(* recall and F-measure of lists of at most MaxNotes notes.                 *)
(* mir_eval is modelled by what the two functions called do: a largest      *)
(* one-to-one matching among the pairs that are close enough.               *)

MaxNotes == 2

ScoreScale == LcmUpTo(2 * MaxNotes)

\* TRANSCRIPTION_PARAMS['onset_threshold'] = 0.3 s
OnsetThreshold == 300

\* onset_tolerance of precision_recall_f1 when the caller passes none: 0.05 s
DefaultOnsetTolerance == 50

\* pitch_tolerance of precision_recall_f1 when the caller passes none: 50
\* cents, the frequency ratio 2^(50/1200) = 1.029302..., in millionths (no
\* ratio of two note numbers up to 127 lies between this and the exact value)
DefaultPitchRatio == 1029302

\* the length every note of an input file has
NoteLength == 100

Note(start, pitch) == [start |-> start, end |-> start + NoteLength,
                       pitch |-> pitch]

\* intervals [note.start, note.end] and pitches of the notes of a file
get_notes_from_midi(midi) ==
    [intervals |-> [i \in 1 .. Len(midi) |-> <<midi[i].start, midi[i].end>>],
     pitches |-> [i \in 1 .. Len(midi) |-> midi[i].pitch]]

\* intervals[:, 0]
Onsets(intervals) == [i \in 1 .. Len(intervals) |-> intervals[i][1]]

SetMax(S) == CHOOSE m \in S : \A x \in S : x <= m

\* the size of a largest one-to-one matching within hits, a set of pairs
\* <<reference index, estimate index>>, over the reference indices i .. n
RECURSIVE MatchFrom(_, _, _, _)
MatchFrom(hits, i, n, used) ==
    IF i > n THEN 0
    ELSE LET free == {h \in hits : h[1] = i /\ h[2] \notin used}
         IN  SetMax({MatchFrom(hits, i + 1, n, used)}
                    \cup {1 + MatchFrom(hits, i + 1, n, used \cup {h[2]}) :
                             h \in free})

bipartite_match(hits, n) == MatchFrom(hits, 1, n, {})

\* util.match_events: events at most window apart, matched one to one
match_events(ref, est, window) ==
    bipartite_match({h \in (1 .. Len(ref)) \X (1 .. Len(est)) :
                        Abs(ref[h[1]] - est[h[2]]) <= window}, Len(ref))

\* util.f_measure with beta = 1
f_measure(precision, recall) ==
    IF precision = 0 /\ recall = 0 THEN 0
    ELSE (2 * precision * recall) \div (precision + recall)

\* mir_eval.onset.f_measure: returns (f_measure, precision, recall)
onset_f_measure(reference_onsets, estimated_onsets, window) ==
    IF Len(reference_onsets) = 0 \/ Len(estimated_onsets) = 0
    THEN <<0, 0, 0>>
    ELSE LET matching == match_events(reference_onsets, estimated_onsets,
                                      window)
             precision == (matching * ScoreScale) \div Len(estimated_onsets)
             recall == (matching * ScoreScale) \div Len(reference_onsets)
         IN  <<f_measure(precision, recall), precision, recall>>

\* two pitches at most 50 cents apart, the pitches read as frequencies
PitchHit(ref_pitch, est_pitch) ==
    LET hi == IF ref_pitch >= est_pitch THEN ref_pitch ELSE est_pitch
        lo == IF ref_pitch >= est_pitch THEN est_pitch ELSE ref_pitch
    IN  hi * 1000000 <= DefaultPitchRatio * lo

\* offsets at most max(0.2 * reference duration, 0.05 s) apart
OffsetHit(ref_interval, est_interval) ==
    LET duration == ref_interval[2] - ref_interval[1]
        tolerance5 == IF duration >= 5 * DefaultOnsetTolerance
                      THEN duration ELSE 5 * DefaultOnsetTolerance
    IN  5 * Abs(ref_interval[2] - est_interval[2]) <= tolerance5

\* the note matching with the offset criterion left at its default ratio
match_with_offsets(ref_intervals, ref_pitches, est_intervals, est_pitches) ==
    bipartite_match(
        {h \in (1 .. Len(ref_pitches)) \X (1 .. Len(est_pitches)) :
            /\ Abs(ref_intervals[h[1]][1] - est_intervals[h[2]][1])
                   <= DefaultOnsetTolerance
            /\ PitchHit(ref_pitches[h[1]], est_pitches[h[2]])
            /\ OffsetHit(ref_intervals[h[1]], est_intervals[h[2]])},
        Len(ref_pitches))

\* the note matching with onsets compared strictly
match_notes_strict(ref_intervals, ref_pitches, est_intervals, est_pitches) ==
    bipartite_match(
        {h \in (1 .. Len(ref_pitches)) \X (1 .. Len(est_pitches)) :
            /\ Abs(ref_intervals[h[1]][1] - est_intervals[h[2]][1])
                   < DefaultOnsetTolerance
            /\ PitchHit(ref_pitches[h[1]], est_pitches[h[2]])},
        Len(ref_pitches))

\* mir_eval.transcription.match_notes as it is called: offset_ratio = None,
\* onset_tolerance and pitch_tolerance not passed
match_notes(ref_intervals, ref_pitches, est_intervals, est_pitches) ==
    bipartite_match(
        {h \in (1 .. Len(ref_pitches)) \X (1 .. Len(est_pitches)) :
            /\ Abs(ref_intervals[h[1]][1] - est_intervals[h[2]][1])
                   <= DefaultOnsetTolerance
            /\ PitchHit(ref_pitches[h[1]], est_pitches[h[2]])},
        Len(ref_pitches))

\* mir_eval.transcription.precision_recall_f1: returns (precision, recall,
\* f_measure)
precision_recall_f1(ref_intervals, ref_pitches, est_intervals, est_pitches) ==
    IF Len(ref_pitches) = 0 \/ Len(est_pitches) = 0 THEN <<0, 0, 0>>
    ELSE LET matching == match_notes(ref_intervals, ref_pitches,
                                     est_intervals, est_pitches)
             precision == (matching * ScoreScale) \div Len(est_pitches)
             recall == (matching * ScoreScale) \div Len(ref_pitches)
         IN  <<precision, recall, f_measure(precision, recall)>>

\* evaluate_transcription scoring two files without notes as a perfect match
evaluate_transcription_empty_is_perfect(ref_midi, pred_midi) ==
    LET ref == get_notes_from_midi(ref_midi)
        pred == get_notes_from_midi(pred_midi)
    IN  IF Len(ref.intervals) = 0 /\ Len(pred.intervals) = 0
        THEN [onset_f1 |-> ScoreScale, pitch_f1 |-> ScoreScale]
        ELSE LET onset == onset_f_measure(Onsets(ref.intervals),
                                          Onsets(pred.intervals),
                                          OnsetThreshold)
                 pitch == precision_recall_f1(ref.intervals, ref.pitches,
                                              pred.intervals, pred.pitches)
             IN  [onset_f1 |-> onset[3], pitch_f1 |-> pitch[3]]

\* evaluate_transcription: (onset_f1, pitch_f1).  Both library results are
\* unpacked as (precision, recall, f1), so onset_f1 is the third value the
\* onset function returns.
evaluate_transcription(ref_midi, pred_midi) ==
    LET ref == get_notes_from_midi(ref_midi)
        pred == get_notes_from_midi(pred_midi)
    IN  IF Len(ref.intervals) = 0 \/ Len(pred.intervals) = 0
        THEN [onset_f1 |-> 0, pitch_f1 |-> 0]
        ELSE LET onset == onset_f_measure(Onsets(ref.intervals),
                                          Onsets(pred.intervals),
                                          OnsetThreshold)
                 pitch == precision_recall_f1(ref.intervals, ref.pitches,
                                              pred.intervals, pred.pitches)
             IN  [onset_f1 |-> onset[3], pitch_f1 |-> pitch[3]]

\* predicted pitches whose closest reference pitch is at most
\* TRANSCRIPTION_PARAMS['pitch_tolerance'] = 0.2 away, over all predicted
pitch_accuracy(ref_pitches, pred_pitches) ==
    LET pitch_matches ==
            Cardinality({j \in 1 .. Len(pred_pitches) :
                \E i \in 1 .. Len(ref_pitches) :
                    5 * Abs(ref_pitches[i] - pred_pitches[j]) <= 1})
    IN  (pitch_matches * ScoreScale) \div Len(pred_pitches)

\* evaluate_midi_accuracy: the metrics dictionary
evaluate_midi_accuracy(ref_midi, pred_midi) ==
    LET ref == get_notes_from_midi(ref_midi)
        pred == get_notes_from_midi(pred_midi)
        both == Len(ref.pitches) > 0 /\ Len(pred.pitches) > 0
        onset == IF Len(ref.intervals) > 0 /\ Len(pred.intervals) > 0
                 THEN onset_f_measure(Onsets(ref.intervals),
                                      Onsets(pred.intervals), OnsetThreshold)
                 ELSE <<0, 0, 0>>
        pitch == IF both
                 THEN precision_recall_f1(ref.intervals, ref.pitches,
                                          pred.intervals, pred.pitches)
                 ELSE <<0, 0, 0>>
    IN  [onset_precision |-> onset[1], onset_recall |-> onset[2],
         onset_f1 |-> onset[3],
         pitch_precision |-> pitch[1], pitch_recall |-> pitch[2],
         pitch_f1 |-> pitch[3],
         ref_note_count |-> Len(ref.pitches),
         pred_note_count |-> Len(pred.pitches),
         pitch_accuracy |-> IF both THEN pitch_accuracy(ref.pitches,
                                                        pred.pitches)
                            ELSE 0]

----------------------------------------------------------------------------
(* Evaluator calls: two files whose notes are in onset order.               *)

ReferenceOnsets == {0, 1000}

PredictedOnsets == {0, 50, 300, 5000}

NotePitches == {60, 61, 63}

MidiFiles(onsets) ==
    {midi \in UNION {[1 .. n -> {Note(t, p) : t \in onsets,
                                                 p \in NotePitches}] :
                        n \in 0 .. MaxNotes} :
        \A i \in 1 .. (Len(midi) - 1) : midi[i].start <= midi[i + 1].start}

InitEval ==
    /\ pc = "evaluate"
    /\ DataIdle
    /\ IntIdle
    /\ reference \in MidiFiles(ReferenceOnsets)
    /\ predicted \in MidiFiles(PredictedOnsets)
    /\ scores = <<>>
    /\ metrics = <<>>
    /\ QIdle
    /\ SegIdle
    /\ MergeIdle
    /\ DetIdle
    /\ BatchIdle
    /\ AdhIdle

EvaluateTranscription ==
    /\ pc = "evaluate"
    /\ scores' = <<evaluate_transcription(reference, predicted)>>
    /\ pc' = "evaluated"
    /\ UNCHANGED <<reference, predicted, metrics, qvars, segvars, mvars,
                   dvars, bvars, avars, tvars,
                   ivars>>

EvaluateMidiAccuracy ==
    /\ pc = "evaluate"
    /\ metrics' = <<evaluate_midi_accuracy(reference, predicted)>>
    /\ pc' = "measured"
    /\ UNCHANGED <<reference, predicted, scores, qvars, segvars, mvars,
                   dvars, bvars, avars, tvars,
                   ivars>>

NextEval == EvaluateTranscription \/ EvaluateMidiAccuracy

SpecEval == InitEval /\ [][NextEval]_vars

----------------------------------------------------------------------------
(* Evaluator claims.                                                        *)

Evaluated == pc = "evaluated"

Measured == pc = "measured"

BothNonEmpty == reference # <<>> /\ predicted # <<>>

\* C13: with an empty reference or predicted list (or both) the evaluation
\* returns onset_f1 = 0.0 and pitch_f1 = 0.0, and nothing is raised.
C13_EmptyListGivesZero ==
    ~BothNonEmpty =>
        /\ Evaluated => scores = <<[onset_f1 |-> 0, pitch_f1 |-> 0]>>
        /\ Measured => /\ Len(metrics) = 1
                       /\ metrics[1].onset_f1 = 0
                       /\ metrics[1].pitch_f1 = 0

C13_Witness ==
    /\ Evaluated
    /\ Len(reference) = 2
    /\ predicted = <<>>
    /\ Len(scores) = 1

\* the pairs the statement of the scores calls matchable
OnsetPairs ==
    {h \in (1 .. Len(reference)) \X (1 .. Len(predicted)) :
        Abs(reference[h[1]].start - predicted[h[2]].start) <= 300}

\* pitches at most 0.2 semitones apart
PitchPairs ==
    {h \in OnsetPairs :
        5 * Abs(reference[h[1]].pitch - predicted[h[2]].pitch) <= 1}

\* the harmonic mean of m / |predicted| and m / |reference|
HarmonicMean(m) == (2 * m * ScoreScale) \div (Len(reference) + Len(predicted))

\* C14: for non-empty lists onset_f1 is the harmonic mean of M/|predicted|
\* and M/|reference|, M the size of a one-to-one matching among the pairs
\* with onsets at most 0.3 s apart; M <= min of the lengths, the score is in
\* [0, 1], and it is 0.0 when no pair is within the window.
C14_OnsetF1IsHarmonicMean ==
    (Evaluated /\ BothNonEmpty) =>
        LET M == bipartite_match(OnsetPairs, Len(reference))
        IN  /\ M <= Len(reference) /\ M <= Len(predicted)
            /\ scores[1].onset_f1 = HarmonicMean(M)
            /\ scores[1].onset_f1 \in 0 .. ScoreScale
            /\ OnsetPairs = {} => scores[1].onset_f1 = 0

\* C15: for non-empty lists pitch_f1 is the harmonic mean of precision and
\* recall of a one-to-one matching among exactly the pairs with onsets at
\* most 0.3 s apart and pitches at most 0.2 semitones apart.
C15_PitchF1FromWindowAndTolerance ==
    (Evaluated /\ BothNonEmpty) =>
        scores[1].pitch_f1
            = HarmonicMean(bipartite_match(PitchPairs, Len(reference)))

\* C16: the reference note (onset 0.00, pitch 60) against the predicted
\* note (onset 0.05, pitch 60) scores onset_f1 = 1.0 and pitch_f1 = 1.0.
C16_NearbySamePitchScoresOne ==
    (Evaluated /\ reference = <<Note(0, 60)>> /\ predicted = <<Note(50, 60)>>)
        => scores = <<[onset_f1 |-> ScoreScale, pitch_f1 |-> ScoreScale]>>

C16_Witness ==
    /\ Evaluated
    /\ reference = <<Note(0, 60)>>
    /\ predicted = <<Note(50, 60)>>
    /\ scores[1].pitch_f1 = ScoreScale

\* the files that differ from midi in the end of one note
EndChanged(midi) ==
    {[midi EXCEPT ![i].end = midi[i].start + length] :
        i \in 1 .. Len(midi), length \in {1, 2000}}

\* C17: changing the end of any one note, reference or predicted, with all
\* onsets and pitches kept, leaves both returned scores as they are.
C17_OffsetsIgnored ==
    Evaluated =>
        /\ \A other \in EndChanged(reference) :
               evaluate_transcription(other, predicted) = scores[1]
        /\ \A other \in EndChanged(predicted) :
               evaluate_transcription(reference, other) = scores[1]

C17_Witness ==
    /\ Evaluated
    /\ Len(reference) = 2
    /\ Len(predicted) = 2
    /\ scores[1].pitch_f1 = ScoreScale

\* C27: the pitch F1 returned is never greater than the onset F1 returned.
C27_PitchF1AtMostOnsetF1 ==
    Evaluated => scores[1].pitch_f1 <= scores[1].onset_f1

----------------------------------------------------------------------------
(* Batch evaluation.  A path stands for the notes of the file it names.  A  *)
(* statistic of the per-item scores is an integer number of                 *)
(* 1/(ScoreScale * BatchScale), which is exact for every mean and median of *)
(* at most MaxBatch scores; the standard deviation is kept as its square,   *)
(* the variance, in squares of that unit.                                   *)

MaxBatch == 3

BatchScale == 2 * LcmUpTo(MaxBatch)

\* the length check skipped
LengthsNeverDiffer(ref_midi_paths, pred_midi_paths) == FALSE

\* len(ref_midi_paths) != len(pred_midi_paths)
LengthsDiffer(ref_midi_paths, pred_midi_paths) ==
    Len(ref_midi_paths) # Len(pred_midi_paths)

\* the number of pairs zip() yields
ZipLength(ref_midi_paths, pred_midi_paths) ==
    IF Len(ref_midi_paths) <= Len(pred_midi_paths)
    THEN Len(ref_midi_paths) ELSE Len(pred_midi_paths)

RemoveAt(xs, i) == SubSeq(xs, 1, i - 1) \o SubSeq(xs, i + 1, Len(xs))

RECURSIVE SortScores(_)
SortScores(xs) ==
    IF xs = <<>> THEN <<>>
    ELSE LET i == CHOOSE i \in 1 .. Len(xs) : xs[i] = MinSeq(xs)
         IN  <<xs[i]>> \o SortScores(RemoveAt(xs, i))

np_mean(xs) == (SumSeq(xs) * BatchScale) \div Len(xs)

\* the variance, np.std squared
np_std_squared(xs) ==
    LET mean == np_mean(xs)
        deviations == [i \in 1 .. Len(xs) |-> xs[i] * BatchScale - mean]
        squares == [i \in 1 .. Len(xs) |-> deviations[i] * deviations[i]]
    IN  SumSeq(squares) \div Len(xs)

\* the upper middle score taken as the median
np_median_upper(xs) ==
    SortScores(xs)[(Len(xs) \div 2) + 1] * BatchScale

np_median(xs) ==
    LET sorted == SortScores(xs)
        n == Len(xs)
    IN  IF n % 2 = 1 THEN sorted[(n + 1) \div 2] * BatchScale
        ELSE ((sorted[n \div 2] + sorted[(n \div 2) + 1]) * BatchScale) \div 2

np_min(xs) == MinSeq(xs) * BatchScale

np_max(xs) == MaxSeq(xs) * BatchScale

\* raise ValueError("Reference and predicted MIDI lists must have the same
\* length")
LengthMismatch == [error |-> "ValueError", message |-> "same length"]

\* np.min of an empty list raises
ZeroSizeReduction == [error |-> "ValueError", message |-> "zero-size array"]

BatchReport(onset_scores, pitch_scores) ==
    [error |-> "none",
     mean_onset_f1 |-> np_mean(onset_scores),
     std_onset_f1_squared |-> np_std_squared(onset_scores),
     mean_pitch_f1 |-> np_mean(pitch_scores),
     std_pitch_f1_squared |-> np_std_squared(pitch_scores),
     median_onset_f1 |-> np_median(onset_scores),
     median_pitch_f1 |-> np_median(pitch_scores),
     min_onset_f1 |-> np_min(onset_scores),
     max_onset_f1 |-> np_max(onset_scores),
     min_pitch_f1 |-> np_min(pitch_scores),
     max_pitch_f1 |-> np_max(pitch_scores),
     total_evaluations |-> Len(onset_scores)]

ReferenceFiles ==
    {<<>>, <<Note(0, 60)>>, <<Note(0, 60), Note(1000, 63)>>}

PredictedFiles ==
    {<<Note(50, 61)>>, <<Note(0, 60), Note(5000, 60)>>, <<Note(300, 60)>>}

PathLists(files) == UNION {[1 .. n -> files] : n \in 0 .. MaxBatch}

InitBatch ==
    /\ pc = "batch"
    /\ DataIdle
    /\ IntIdle
    /\ reference_paths \in PathLists(ReferenceFiles)
    /\ predicted_paths \in PathLists(PredictedFiles)
    /\ onset_f1_scores = <<>>
    /\ pitch_f1_scores = <<>>
    /\ batch_result = <<>>
    /\ QIdle
    /\ SegIdle
    /\ MergeIdle
    /\ DetIdle
    /\ EvalIdle
    /\ AdhIdle

BatchCheckLengths ==
    /\ pc = "batch"
    /\ IF LengthsDiffer(reference_paths, predicted_paths)
       THEN /\ batch_result' = <<LengthMismatch>>
            /\ pc' = "raised"
       ELSE /\ pc' = "scoring"
            /\ UNCHANGED batch_result
    /\ UNCHANGED <<reference_paths, predicted_paths, onset_f1_scores,
                   pitch_f1_scores, qvars, segvars, mvars, dvars, evars,
                   avars, tvars,
                   ivars>>

BatchItem ==
    /\ pc = "scoring"
    /\ Len(onset_f1_scores) < ZipLength(reference_paths, predicted_paths)
    /\ LET i == Len(onset_f1_scores) + 1
           item == evaluate_transcription(reference_paths[i],
                                          predicted_paths[i])
       IN  /\ onset_f1_scores' = Append(onset_f1_scores, item.onset_f1)
           /\ pitch_f1_scores' = Append(pitch_f1_scores, item.pitch_f1)
    /\ UNCHANGED <<pc, reference_paths, predicted_paths, batch_result, qvars,
                   segvars, mvars, dvars, evars, avars, tvars,
                   ivars>>

BatchReturn ==
    /\ pc = "scoring"
    /\ Len(onset_f1_scores) = ZipLength(reference_paths, predicted_paths)
    /\ IF onset_f1_scores = <<>>
       THEN /\ batch_result' = <<ZeroSizeReduction>>
            /\ pc' = "raised"
       ELSE /\ batch_result' = <<BatchReport(onset_f1_scores,
                                             pitch_f1_scores)>>
            /\ pc' = "reported"
    /\ UNCHANGED <<reference_paths, predicted_paths, onset_f1_scores,
                   pitch_f1_scores, qvars, segvars, mvars, dvars, evars,
                   avars, tvars,
                   ivars>>

NextBatch == BatchCheckLengths \/ BatchItem \/ BatchReturn

SpecBatch == InitBatch /\ [][NextBatch]_vars

----------------------------------------------------------------------------
(* Batch claims.                                                            *)

Raised == pc = "raised"

Reported == pc = "reported"

\* C18: with lists of different lengths the batch evaluation fails with the
\* length error before any item is scored, and produces no report.
C18_LengthMismatchBeforeAnyItem ==
    (pc # "batch" /\ Len(reference_paths) # Len(predicted_paths)) =>
        /\ Raised
        /\ batch_result = <<LengthMismatch>>
        /\ onset_f1_scores = <<>>
        /\ pitch_f1_scores = <<>>

C18_Witness ==
    /\ Raised
    /\ Len(reference_paths) = 2
    /\ Len(predicted_paths) = 3
    /\ batch_result = <<LengthMismatch>>

\* the k-th smallest of the scores xs
KthSmallest(xs, k) ==
    CHOOSE v \in SeqToSet(xs) :
        /\ Cardinality({i \in 1 .. Len(xs) : xs[i] < v}) < k
        /\ k <= Cardinality({i \in 1 .. Len(xs) : xs[i] <= v})

\* mean, median, min, max and variance are those statistics of the scores xs
StatisticsOf(xs, mean, median, min, max, variance) ==
    LET n == Len(xs)
    IN  /\ mean * n = SumSeq(xs) * BatchScale
        /\ 2 * median = (KthSmallest(xs, (n + 1) \div 2)
                         + KthSmallest(xs, (n \div 2) + 1)) * BatchScale
        /\ min = KthSmallest(xs, 1) * BatchScale
        /\ max = KthSmallest(xs, n) * BatchScale
        /\ variance * n
               = SumSeq([i \in 1 .. n |-> (xs[i] * BatchScale - mean)
                                          * (xs[i] * BatchScale - mean)])
        /\ min <= median /\ median <= max
        /\ min <= mean /\ mean <= max
        /\ 0 <= min /\ max <= ScoreScale * BatchScale

\* C19: for n >= 1 pairs the batch evaluation scores item i of the
\* reference list against item i of the predicted list, reports
\* total_evaluations = n, and returns the mean, median, min, max and standard
\* deviation (here its square) of exactly those n onset scores and n pitch
\* scores, with min <= median <= max, min <= mean <= max, all in [0, 1].
C19_BatchStatistics ==
    Reported =>
        LET n == Len(reference_paths)
            report == batch_result[1]
        IN  /\ n >= 1
            /\ Len(predicted_paths) = n
            /\ report.total_evaluations = n
            /\ Len(onset_f1_scores) = n
            /\ Len(pitch_f1_scores) = n
            /\ \A i \in 1 .. n :
                   LET item == evaluate_transcription(reference_paths[i],
                                                      predicted_paths[i])
                   IN  /\ onset_f1_scores[i] = item.onset_f1
                       /\ pitch_f1_scores[i] = item.pitch_f1
            /\ StatisticsOf(onset_f1_scores, report.mean_onset_f1,
                            report.median_onset_f1, report.min_onset_f1,
                            report.max_onset_f1, report.std_onset_f1_squared)
            /\ StatisticsOf(pitch_f1_scores, report.mean_pitch_f1,
                            report.median_pitch_f1, report.min_pitch_f1,
                            report.max_pitch_f1, report.std_pitch_f1_squared)

C19_Witness ==
    /\ Reported
    /\ Len(reference_paths) = 2
    /\ batch_result[1].min_pitch_f1 < batch_result[1].median_pitch_f1
    /\ batch_result[1].std_onset_f1_squared > 0
    /\ batch_result[1].total_evaluations = 2

\* C28: for lists of equal length, two empty lists included, the batch
\* evaluation raises nothing and returns a report whose total_evaluations
\* is the number of items.
C28_EqualLengthsGiveReport ==
    Len(reference_paths) = Len(predicted_paths) =>
        /\ ~Raised
        /\ Reported =>
               batch_result[1].total_evaluations = Len(reference_paths)

----------------------------------------------------------------------------
(* Scale adherence.  Frequencies are floats in frequency units, the tonic   *)
(* is the default 440 Hz, and a ratio is an integer number of 1/AdhScale.   *)

MaxFreqs == 3

AdhScale == LcmUpTo(MaxFreqs)

\* self.reference_freq = 440.0, reference_freq=440.0
DefaultReference == 440

\* a relative deviation below a tenth
IsScaleMatchTenth(freq, quantized_freq) ==
    /\ freq.k = "num"
    /\ IF freq.v > 0 THEN 10 * Abs(freq.v - quantized_freq) < freq.v
       ELSE freq.v < 0

\* abs(freq - quantized_freq) / freq < 0.05: False for NaN, and True for a
\* negative freq, whose quotient is not positive (a zero freq, on which the
\* division fails, is not among the inputs)
IsScaleMatch(freq, quantized_freq) ==
    /\ freq.k = "num"
    /\ IF freq.v > 0 THEN 20 * Abs(freq.v - quantized_freq) < freq.v
       ELSE freq.v < 0

\* the number of matches counted by the loop
RECURSIVE CountMatches(_, _)
CountMatches(freqs, matches) ==
    IF freqs = <<>> THEN matches
    ELSE LET quantized ==
                 quantize_to_thai_scale(Head(freqs), DefaultReference)
         IN  CountMatches(Tail(freqs),
                          IF IsScaleMatch(Head(freqs), quantized.freq)
                          THEN matches + 1 ELSE matches)

\* the ratio with at most one match counted
analyze_adherence_any(freqs) ==
    IF freqs = <<>> THEN 0
    ELSE IF CountMatches(freqs, 0) = 0 THEN 0
    ELSE AdhScale \div Len(freqs)

\* ThaiIsanTranscriptionAnalyzer.analyze_thai_scale_adherence
analyze_thai_scale_adherence(freqs) ==
    IF freqs = <<>> THEN 0
    ELSE (CountMatches(freqs, 0) * AdhScale) \div Len(freqs)

\* the loop of the file analysis: NaN frames are skipped, not counted
RECURSIVE CountValidMatches(_, _)
CountValidMatches(valid_f0, scale_matches) ==
    IF valid_f0 = <<>> THEN scale_matches
    ELSE IF Head(valid_f0).k = "nan"
    THEN CountValidMatches(Tail(valid_f0), scale_matches)
    ELSE LET quantized ==
                 quantize_to_thai_scale(Head(valid_f0), DefaultReference)
         IN  CountValidMatches(Tail(valid_f0),
                               IF IsScaleMatch(Head(valid_f0), quantized.freq)
                               THEN scale_matches + 1 ELSE scale_matches)

\* analyze_thai_scale_adherence of the file analysis, on the voiced frames
file_scale_adherence(valid_f0) ==
    IF Len(valid_f0) = 0 THEN 0
    ELSE (CountValidMatches(valid_f0, 0) * AdhScale) \div Len(valid_f0)

\* the seven canonical frequencies, the last and first frequencies within
\* 5% below the lowest and above the highest of them and their neighbours
\* outside, a frequency between two degrees, an octave above the tonic, NaN
AdherenceInputs ==
    {FNum(ExpectedFreq(d, DefaultReference)) : d \in Degrees}
    \cup {FNum(v) : v \in {419047, 419048, 467000, 828589, 828590, 1320000}}
    \cup {FNaN}

InitAdh ==
    /\ pc = "adherence"
    /\ DataIdle
    /\ IntIdle
    /\ scale_frequencies \in
           UNION {[1 .. n -> AdherenceInputs] : n \in 0 .. MaxFreqs}
    /\ adherence = <<>>
    /\ AccIdle
    /\ QIdle
    /\ SegIdle
    /\ MergeIdle
    /\ DetIdle
    /\ EvalIdle
    /\ BatchIdle

AnalyzeFrequencies ==
    /\ pc = "adherence"
    /\ adherence' = <<analyze_thai_scale_adherence(scale_frequencies)>>
    /\ pc' = "adhered"
    /\ UNCHANGED <<scale_frequencies, note_pitches, fundamental_hz,
                   scale_accuracy, qvars, segvars, mvars, dvars, evars,
                   bvars, tvars,
                   ivars>>

AnalyzeFile ==
    /\ pc = "adherence"
    /\ adherence' = <<file_scale_adherence(scale_frequencies)>>
    /\ pc' = "analyzed"
    /\ UNCHANGED <<scale_frequencies, note_pitches, fundamental_hz,
                   scale_accuracy, qvars, segvars, mvars, dvars, evars,
                   bvars, tvars,
                   ivars>>

NextAdh == AnalyzeFrequencies \/ AnalyzeFile

SpecAdh == InitAdh /\ [][NextAdh]_vars

----------------------------------------------------------------------------
(* Adherence claims.                                                        *)

Adhered == pc \in {"adhered", "analyzed"}

\* the frequencies whose deviation from the nearest canonical frequency is
\* below 5% of the frequency
WithinTolerance ==
    {i \in 1 .. Len(scale_frequencies) :
        /\ scale_frequencies[i].k = "num"
        /\ \E d \in Degrees :
             LET canonical == CanonicalFreq(d, 440)
                 deviation == Abs(scale_frequencies[i].v - canonical)
             IN  /\ \A e \in Degrees :
                        deviation <= Abs(scale_frequencies[i].v
                                         - CanonicalFreq(e, 440))
                 /\ 100 * deviation < 5 * scale_frequencies[i].v}

AllCanonical ==
    \A i \in 1 .. Len(scale_frequencies) :
        /\ scale_frequencies[i].k = "num"
        /\ \E d \in Degrees : scale_frequencies[i].v = CanonicalFreq(d, 440)

\* C20: scale_adherence is 0.0 for an empty sequence and otherwise the
\* number of frequencies within the 5% relative tolerance of their quantized
\* frequency over the length of the sequence; it is in [0, 1], and it is 1.0
\* when every frequency is canonical.
C20_AdherenceIsFractionWithinTolerance ==
    Adhered =>
        /\ Len(adherence) = 1
        /\ scale_frequencies = <<>> => adherence[1] = 0
        /\ adherence[1] * Len(scale_frequencies)
               = Cardinality(WithinTolerance) * AdhScale
        /\ adherence[1] \in 0 .. AdhScale
        /\ (scale_frequencies # <<>> /\ AllCanonical)
               => adherence[1] = AdhScale

C20_Witness ==
    /\ pc = "adhered"
    /\ Len(scale_frequencies) = 3
    /\ Cardinality(WithinTolerance) = 2
    /\ adherence[1] * 3 = 2 * AdhScale

Front(xs) == SubSeq(xs, 1, Len(xs) - 1)

\* C21: appending a frequency that passes the adherence check never lowers
\* the ratio: scale_adherence(S followed by f) >= scale_adherence(S).
C21_AppendingAdherentIsMonotone ==
    (pc = "adhered" /\ scale_frequencies # <<>>
        /\ Len(scale_frequencies) \in WithinTolerance)
        => analyze_thai_scale_adherence(Front(scale_frequencies))
               <= adherence[1]

C21_Witness ==
    /\ pc = "adhered"
    /\ Len(scale_frequencies) = 3
    /\ WithinTolerance = {1, 3}
    /\ adherence[1] > analyze_thai_scale_adherence(Front(scale_frequencies))

----------------------------------------------------------------------------
(* Scale accuracy of the evaluator.  A relative deviation is kept in        *)
(* thousandths, rounded down, and their mean in 1/AdhScale of a thousandth. *)

\* 440.0 * 2 ** ((pitch - 69) / 12), to the nearest frequency unit
midi_to_hz(pitch) ==
    CASE pitch = 60 -> 392438
      [] pitch = 64 -> 494441
      [] pitch = 69 -> 660000
      [] pitch = 72 -> 784877
      [] pitch = 76 -> 988883
      [] pitch = 81 -> 1320000

\* thai_scale_ratios of the evaluator, in thousandths
thai_scale_ratios == <<1000, 1125, 1250, 1333, 1500, 1667, 1789>>

\* fundamental_hz * ratio, in frequency units
thai_scale_freqs(fundamental) ==
    [i \in 1 .. Len(thai_scale_ratios) |->
        (fundamental * thai_scale_ratios[i] * UnitsPerHz) \div 1000]

\* min(thai_scale_freqs, key=lambda x: abs(x - freq)): the first of the
\* closest
closest_scale_freq(freq, scale_freqs) ==
    LET i == CHOOSE i \in 1 .. Len(scale_freqs) :
                 /\ \A j \in 1 .. Len(scale_freqs) :
                        Abs(scale_freqs[i] - freq) <= Abs(scale_freqs[j] - freq)
                 /\ \A j \in 1 .. (i - 1) :
                        Abs(scale_freqs[i] - freq) < Abs(scale_freqs[j] - freq)
    IN  scale_freqs[i]

compute_thai_scale_accuracy(pitches, fundamental) ==
    IF pitches = <<>>
    THEN [thai_scale_adherence |-> 0, average_deviation |-> 0,
          thai_scale_notes_ratio |-> 0]
    ELSE LET n == Len(pitches)
             freqs == [i \in 1 .. n |-> midi_to_hz(pitches[i])]
             scale_freqs == thai_scale_freqs(fundamental)
             deviation ==
                 [i \in 1 .. n |->
                     Abs(freqs[i] - closest_scale_freq(freqs[i], scale_freqs))]
             scale_matches ==
                 Cardinality({i \in 1 .. n : 20 * deviation[i] < freqs[i]})
             total_deviation ==
                 SumSeq([i \in 1 .. n |-> (deviation[i] * 1000) \div freqs[i]])
         IN  [thai_scale_adherence |-> (scale_matches * AdhScale) \div n,
              average_deviation |-> (total_deviation * AdhScale) \div n,
              thai_scale_notes_ratio |-> (scale_matches * AdhScale) \div n]

MidiPitches == {60, 64, 69, 72, 76, 81}

Fundamentals == {220, 440}

InitAcc ==
    /\ pc = "accuracy"
    /\ DataIdle
    /\ IntIdle
    /\ note_pitches \in UNION {[1 .. n -> MidiPitches] : n \in 0 .. MaxFreqs}
    /\ fundamental_hz \in Fundamentals
    /\ scale_accuracy = <<>>
    /\ FreqIdle
    /\ QIdle
    /\ SegIdle
    /\ MergeIdle
    /\ DetIdle
    /\ EvalIdle
    /\ BatchIdle

ComputeScaleAccuracy ==
    /\ pc = "accuracy"
    /\ scale_accuracy' =
           <<compute_thai_scale_accuracy(note_pitches, fundamental_hz)>>
    /\ pc' = "scored"
    /\ UNCHANGED <<scale_frequencies, adherence, note_pitches, fundamental_hz,
                   qvars, segvars, mvars, dvars, evars, bvars, tvars,
                   ivars>>

NextAcc == ComputeScaleAccuracy

SpecAcc == InitAcc /\ [][NextAcc]_vars

\* the notes the quantizer's adherence check passes, the tonic being the
\* fundamental
QuantizerAdherent ==
    {i \in 1 .. Len(note_pitches) :
        LET freq == FNum(midi_to_hz(note_pitches[i]))
        IN  IsScaleMatch(freq,
                         quantize_to_thai_scale(freq, fundamental_hz).freq)}

\* C22: the evaluator counts a predicted pitch as adherent exactly when the
\* quantizer's adherence check with tonic = fundamental does;
\* thai_scale_adherence = thai_scale_notes_ratio = adherent / total, within
\* [0, 1], and all metrics are 0.0 for an empty note list.
C22_AccuracyAgreesWithQuantizerCheck ==
    pc = "scored" =>
        /\ scale_accuracy[1].thai_scale_adherence * Len(note_pitches)
               = Cardinality(QuantizerAdherent) * AdhScale
        /\ scale_accuracy[1].thai_scale_notes_ratio
               = scale_accuracy[1].thai_scale_adherence
        /\ scale_accuracy[1].thai_scale_adherence \in 0 .. AdhScale
        /\ note_pitches = <<>> => scale_accuracy[1].average_deviation = 0

----------------------------------------------------------------------------
(* Training dataset: a directory is listed, each listed path is processed, *)
(* and the processed entries are split.  Split fractions are in tenths;    *)
(* int(n * split) is the floor for these fractions at every n reached.     *)

audio_extensions == <<".wav", ".mp3", ".m4a", ".flac", ".aac">>

\* the paths a directory may hold, relative to the directory
DirectoryPaths == {"a.wav", "d.wav", "b.mp3", "sub/c.wav", "notes.txt"}

Suffix(path) ==
    CASE path \in {"a.wav", "d.wav", "sub/c.wav"} -> ".wav"
      [] path = "b.mp3" -> ".mp3"
      [] OTHER -> ".txt"

TopLevel(path) == path # "sub/c.wav"

\* Path(audio_path).name
Name(path) == IF path = "sub/c.wav" THEN "c.wav" ELSE path

Durations == {1, 2}

\* a file: the duration its metadata reports, and whether processing it
\* goes through without an exception
Files == [duration : Durations, processable : BOOLEAN]

OtherFile == [duration |-> 1, processable |-> FALSE]

Directories ==
    {dir \in UNION {[paths -> Files] : paths \in SUBSET DirectoryPaths} :
        \A path \in DOMAIN dir : Suffix(path) = ".txt" => dir[path] = OtherFile}

\* validation_split and test_split, in tenths; <<2, 1>> are the defaults
SplitFractions == {<<2, 1>>, <<3, 3>>}

\* the orders in which a directory scan may yield a set of paths
Orderings(paths) ==
    {order \in [1 .. Cardinality(paths) -> paths] :
        \A i, j \in DOMAIN order : i # j => order[i] # order[j]}

\* Path(directory).glob("*" + ext)
glob_top(dir, ext) ==
    Orderings({path \in DOMAIN dir : Suffix(path) = ext /\ TopLevel(path)})

\* Path(directory).glob("**/*" + ext): the directory itself and every
\* directory below it
glob_recursive(dir, ext) ==
    Orderings({path \in DOMAIN dir : Suffix(path) = ext})

\* the lists the two extend calls per extension can build, from the k-th
\* extension on
RECURSIVE ListingsFrom(_, _)
ListingsFrom(dir, k) ==
    IF k > Len(audio_extensions) THEN {<<>>}
    ELSE {top \o deep \o rest :
             top \in glob_top(dir, audio_extensions[k]),
             deep \in glob_recursive(dir, audio_extensions[k]),
             rest \in ListingsFrom(dir, k + 1)}

_get_audio_files(dir) == ListingsFrom(dir, 1)

\* sorted(): stable, ascending in duration
RECURSIVE InsertByDuration(_, _)
InsertByDuration(sorted, entry) ==
    IF sorted = <<>> THEN <<entry>>
    ELSE IF sorted[Len(sorted)].duration <= entry.duration
         THEN Append(sorted, entry)
         ELSE Append(InsertByDuration(Front(sorted), entry),
                     sorted[Len(sorted)])

RECURSIVE SortedByDuration(_)
SortedByDuration(data) ==
    IF data = <<>> THEN <<>>
    ELSE InsertByDuration(SortedByDuration(Front(data)), data[Len(data)])

\* sorted_data[lo:hi] of Python, 0-based and clamped
Slice(xs, lo, hi) == SubSeq(xs, Min2(lo, Len(xs)) + 1, Min2(hi, Len(xs)))

_split_data(data, val_split, tst_split) ==
    LET sorted_data == SortedByDuration(data)
        n_total == Len(sorted_data)
        n_test == (n_total * tst_split) \div 10
        n_val == (n_total * val_split) \div 10
    IN  [train |-> Slice(sorted_data, n_test + n_val, n_total),
         validation |-> Slice(sorted_data, n_test, n_test + n_val),
         test |-> Slice(sorted_data, 0, n_test)]

NoAudioFiles == [error |-> "ValueError", message |-> "No audio files found"]

InitData ==
    /\ pc = "dataset"
    /\ directory \in Directories
    /\ \E fractions \in SplitFractions :
           /\ validation_split = fractions[1]
           /\ test_split = fractions[2]
    /\ audio_paths = <<>>
    /\ audio_index = 0
    /\ processed_data = <<>>
    /\ data_dir = {}
    /\ splits = <<>>
    /\ QIdle
    /\ SegIdle
    /\ MergeIdle
    /\ DetIdle
    /\ RestIdle
    /\ IntIdle

\* ThaiIsanTranscriptionSystem.create_training_dataset, up to the loop of
\* prepare_training_data
CreateTrainingDataset ==
    /\ pc = "dataset"
    /\ audio_paths' \in _get_audio_files(directory)
    /\ pc' = "processing"
    /\ UNCHANGED <<directory, validation_split, test_split, audio_index,
                   processed_data, data_dir, splits, qvars, segvars, mvars,
                   dvars, evars, bvars, avars, ivars>>

\* prepare_thai_isan_dataset, up to the loop of prepare_training_data
PrepareThaiIsanDataset ==
    /\ pc = "dataset"
    /\ \E listing \in _get_audio_files(directory) :
           /\ audio_paths' = listing
           /\ IF listing = <<>>
              THEN /\ splits' = <<NoAudioFiles>>
                   /\ pc' = "no_audio"
              ELSE /\ splits' = splits
                   /\ pc' = "processing"
    /\ UNCHANGED <<directory, validation_split, test_split, audio_index,
                   processed_data, data_dir, qvars, segvars, mvars, dvars,
                   evars, bvars, avars, ivars>>

\* one pass of the loop of prepare_training_data: the entry is appended and
\* the audio file stored unless processing raised
ProcessAudioFile ==
    /\ pc = "processing"
    /\ audio_index < Len(audio_paths)
    /\ LET audio_path == audio_paths[audio_index + 1]
       IN  IF directory[audio_path].processable
           THEN /\ processed_data' =
                       Append(processed_data,
                              [audio_path |-> Name(audio_path),
                               duration |-> directory[audio_path].duration])
                /\ data_dir' = data_dir \cup {Name(audio_path)}
           ELSE UNCHANGED <<processed_data, data_dir>>
    /\ audio_index' = audio_index + 1
    /\ UNCHANGED <<pc, directory, validation_split, test_split, audio_paths,
                   splits, qvars, segvars, mvars, dvars, evars, bvars, avars,
                   ivars>>

\* the end of prepare_training_data
SplitData ==
    /\ pc = "processing"
    /\ audio_index = Len(audio_paths)
    /\ splits' = <<_split_data(processed_data, validation_split, test_split)>>
    /\ pc' = "split"
    /\ UNCHANGED <<directory, validation_split, test_split, audio_paths,
                   audio_index, processed_data, data_dir, qvars, segvars,
                   mvars, dvars, evars, bvars, avars, ivars>>

NextData ==
    \/ CreateTrainingDataset
    \/ PrepareThaiIsanDataset
    \/ ProcessAudioFile
    \/ SplitData

SpecData == InitData /\ [][NextData]_vars

----------------------------------------------------------------------------
(* Dataset claims.                                                          *)

AudioFiles ==
    {path \in DOMAIN directory :
        \E k \in DOMAIN audio_extensions : Suffix(path) = audio_extensions[k]}

Occurrences(xs, x) == Cardinality({i \in DOMAIN xs : xs[i] = x})

EntriesOf(entries, path) ==
    Cardinality({i \in DOMAIN entries : entries[i].audio_path = Name(path)})

\* C29: when the dataset has been built, every audio file of the directory
\* is listed exactly once, every processed file is in exactly one split and
\* there once, and the test and validation splits have floor(n * test_split)
\* and floor(n * validation_split) of the n processed entries.
C29_ListedOnceAndPartitioned ==
    pc = "split" =>
        LET n == Len(processed_data)
            all == splits[1].test \o splits[1].validation \o splits[1].train
        IN  /\ \A path \in AudioFiles : Occurrences(audio_paths, path) = 1
            /\ \A path \in AudioFiles :
                   directory[path].processable => EntriesOf(all, path) = 1
            /\ Len(splits[1].test) = (n * test_split) \div 10
            /\ Len(splits[1].validation) = (n * validation_split) \div 10

----------------------------------------------------------------------------
(* The analyzer's quantizer and the integration test that calls it.  A      *)
(* Python tuple is [items |-> <<...>>]; a float is one of the float records.*)

\* ThaiIsanTranscriptionAnalyzer.THAI_SCALE_RATIOS, in thousandths
THAI_SCALE_RATIOS == <<1000, 1125, 1250, 1333, 1500, 1667, 1789>>

\* self.reference_freq
AnalyzerReference == 440

PyTuple(items) == [items |-> items]

IsFloat(value) == "k" \in DOMAIN value

\* self.reference_freq * ratio / self.THAI_SCALE_RATIOS[4], in frequency
\* units
analyzer_expected_freq(degree) ==
    (AnalyzerReference * THAI_SCALE_RATIOS[degree + 1] * UnitsPerHz)
        \div THAI_SCALE_RATIOS[5]

RECURSIVE AnalyzerLoop(_, _, _, _)
AnalyzerLoop(freq, degree, closest_degree, min_difference) ==
    IF degree + 1 \notin DOMAIN THAI_SCALE_RATIOS THEN closest_degree
    ELSE LET difference ==
                 FAbsDiff(FNum(analyzer_expected_freq(degree)), freq)
         IN  IF FLess(difference, min_difference)
             THEN AnalyzerLoop(freq, degree + 1, degree, difference)
             ELSE AnalyzerLoop(freq, degree + 1, closest_degree,
                               min_difference)

\* ThaiIsanTranscriptionAnalyzer.quantize_to_thai_scale: the tuple
\* (quantized_freq, closest_degree)
analyzer_quantize_to_thai_scale(freq) ==
    LET closest_degree == AnalyzerLoop(freq, 0, 0, min_difference_init)
    IN  PyTuple(<<FNum(analyzer_expected_freq(closest_degree)),
                  closest_degree>>)

\* test_freq = 261.63, in frequency units
test_freq == 392445

\* f"{value:.2f}": a float is formatted, anything else raises TypeError
format_2f(value) ==
    IF IsFloat(value) THEN [error |-> "none"] ELSE [error |-> "TypeError"]

\* test_thai_isan_integration from the import on: what it returns and what
\* it logs
test_thai_isan_integration(importable) ==
    IF ~importable
    THEN [returned |-> TRUE, log |-> "module not available"]
    ELSE LET quantized_freq ==
                 analyzer_quantize_to_thai_scale(FNum(test_freq))
         IN  IF format_2f(quantized_freq).error = "none"
             THEN [returned |-> TRUE, log |-> "quantization test"]
             ELSE [returned |-> FALSE, log |-> "integration test failed"]

InitInt ==
    /\ pc = "quantize"
    /\ reference_freq = AnalyzerReference
    /\ frequency \in QuantizerInputs(reference_freq) \cup {FNum(test_freq)}
    /\ qresult = NoResult
    /\ IntIdle
    /\ SegIdle
    /\ MergeIdle
    /\ DetIdle
    /\ RestIdle
    /\ DataIdle

\* the analyzer's quantizer on the frequency the other quantizer was given
AnalyzerQuantize ==
    /\ pc = "quantized"
    /\ analyzer_result' = <<analyzer_quantize_to_thai_scale(frequency)>>
    /\ pc' = "both_quantized"
    /\ UNCHANGED <<test_result, qvars, segvars, mvars, dvars, evars, bvars,
                   avars, tvars>>

TestThaiIsanIntegration ==
    /\ pc = "both_quantized"
    /\ \E importable \in BOOLEAN :
           test_result' = <<test_thai_isan_integration(importable)>>
    /\ pc' = "tested"
    /\ UNCHANGED <<analyzer_result, qvars, segvars, mvars, dvars, evars,
                   bvars, avars, tvars>>

NextInt == Quantize \/ AnalyzerQuantize \/ TestThaiIsanIntegration

SpecInt == InitInt /\ [][NextInt]_vars

----------------------------------------------------------------------------
(* Integration claims.                                                      *)

BothQuantized == pc \in {"both_quantized", "tested"}

CanonicalFrequencies == {CanonicalFreq(d, AnalyzerReference) : d \in Degrees}

\* C30: for f > 0 the analyzer's quantized frequency is the value the
\* feature-extraction quantizer returns for reference 440, it is one of the
\* seven canonical frequencies, the two ratio tables are the same, and the
\* integration test, when the analyzer can be imported, formats the
\* analyzer's result as that frequency.
C30_QuantizersAgreeAndTestUsesResult ==
    /\ (BothQuantized /\ PositiveInput) =>
           /\ analyzer_result[1].items[1] = FNum(qresult.freq)
           /\ qresult.freq \in CanonicalFrequencies
           /\ THAI_SCALE_RATIOS = THAI_7_TONE_RATIOS
    /\ (pc = "tested" /\ test_result[1].log # "module not available") =>
           /\ test_result[1].returned
           /\ test_result[1].log = "quantization test"

====
